---- MODULE Spec2Model ----
(***************************************************************************)
(* Model of src/app.py: the periodic-snapshot camera service.              *)
(*                                                                         *)
(* Threads: the main thread (module-level start-up, lines 138-147, which   *)
(* runs each Camera.__init__ and with it the first _update_frame), one     *)
(* updater thread per constructed Camera (lines 115-119) and the request   *)
(* threads of the threaded Flask server (video_feed, lines 164-175), which *)
(* exist only once the module has been loaded (app.run, line 212).         *)
(*                                                                         *)
(* A step of the model is one call on the capture connection, one store    *)
(* into a Camera field or one lock operation; steps that only touch a      *)
(* thread's locals are folded into the neighbouring step.                  *)
(***************************************************************************)
EXTENDS Naturals, Sequences, FiniteSets

\* ---------------------------------------------------------------- bounds
\* Worker threads of one run: the updater threads of the configured cameras
\* plus the request threads the server runs at the same time.
MaxThreads == 3

\* ------------------------------------------------------ program constants
FRAMES_TO_SKIP == 10
\* range(50) of get_frame_dimensions.
DIM_POLLS == 50

\* ------------------------------------------------------------- the inputs
CamIds == {"cam1", "cam2"}
UnknownId == "cam99"

\* Frames are numbered; None is the Python None of an empty cache.
None == 0
\* The frames a camera can deliver: two, of different shapes.
Frames == {1, 2}
\* frame.shape = (height, width, channels) of a decoded BGR frame.
Shape(f) == <<f + 1, 2 * f + 1, 3>>

\* One entry of config.json: the keys it has.
Entry(c, kind) == [id |-> c, hasId |-> kind # "noid", hasUrl |-> kind # "nourl"]

\* The contents of config.json the model starts from.
ConfigFiles ==
    { <<>>,
      <<Entry("cam1", "ok")>>,
      <<Entry("cam1", "nourl")>>,
      <<Entry("cam1", "ok"), Entry("cam2", "ok")>>,
      <<Entry("cam1", "ok"), Entry("cam2", "nourl")>>,
      <<Entry("cam1", "noid"), Entry("cam2", "ok")>> }

\* The arrays a client posts to /api/polygons/<id>; a polygon is a letter.
Polys == {<<"a">>, <<"b", "c">>}
\* The ids polygons are kept for (any string is accepted by the route).
PolyIds == CamIds

Viewers == 1..MaxThreads
Threads == {"main"} \cup CamIds

VARIABLES
    fileOk,        \* config.json exists and parses (json.load succeeds)
    config,        \* the parsed list camera_configs would hold
    cur,           \* index of the config entry the start-up loop is at
    cameras,       \* the registry: ids with a registered Camera
    loadFailed,    \* the start-up except branch (line 146) was taken
    frame,         \* Camera.frame, per camera
    frame_width,   \* Camera.frame_width
    frame_height,  \* Camera.frame_height
    lock,          \* Camera.lock is locked
    pc,            \* position of the main thread and of each updater thread
    cap,           \* local cap of the attempt a thread runs
    lframe,        \* local frame of the attempt a thread runs
    grabs,         \* iterations of the grab loop done in the running attempt
    conns,         \* per camera: capture objects created and not yet released
    vpc,           \* position of each request thread
    vcam,          \* camera_id of the request
    resp,          \* response of the request
    firstOk,       \* history: frame of the first successful read, per camera
    lastGood,      \* history: frame of the latest successful read, per camera
    encoding,      \* what cv2.imencode does with each frame (fixed per run)
    files,         \* polygons_<id>.json: its text, per id
    pdata,         \* local polygons_data / data_to_save of a polygons request
    polls,         \* sleeps done by the loop of get_frame_dimensions
    size,          \* local (width, height) of a polygons GET
    presp,         \* response of a polygons request
    settled,       \* history: the array the latest POST stored, per id
    clean          \* history: no POST for its id has run during this GET

vars == <<fileOk, config, cur, cameras, loadFailed, frame, frame_width,
          frame_height, lock, pc, cap, lframe, grabs, conns, vpc, vcam, resp,
          firstOk, lastGood, encoding, files, pdata, polls, size, presp,
          settled, clean>>

camVars == <<frame, frame_width, frame_height, lock, conns>>
mainVars == <<fileOk, config, cur, cameras, loadFailed>>
viewVars == <<vpc, vcam, resp>>
histVars == <<firstOk, lastGood>>
apiVars == <<encoding, files, pdata, polls, size, presp, settled, clean>>
polyVars == <<files, pdata, polls, size, presp, settled, clean>>

NoResp == [status |-> 0, text |-> "", jpeg |-> <<>>]

\* A polygons file is a sequence of tokens; Absent stands for no file.
Absent == <<"<absent>">>
NoFiles == [i \in PolyIds |-> Absent]
\* History values: no POST yet; the latest POST failed.
NoPost == <<"<no post>">>
Unsettled == <<"<unsettled>">>
NoPResp == [kind |-> "", status |-> 0, polygons |-> <<>>, size |-> <<>>,
            error |-> FALSE]

\* The state of the process when the module starts to load.
InitCore ==
    /\ fileOk \in BOOLEAN
    /\ config \in ConfigFiles
    /\ (~fileOk => config = <<>>)
    /\ cur = 1
    /\ cameras = {}
    /\ loadFailed = FALSE
    /\ frame = [c \in CamIds |-> None]
    /\ frame_width = [c \in CamIds |-> 0]
    /\ frame_height = [c \in CamIds |-> 0]
    /\ lock = [c \in CamIds |-> FALSE]
    /\ pc = [t \in Threads |-> IF t = "main" THEN "load" ELSE "off"]
    /\ cap = [t \in Threads |-> "none"]
    /\ lframe = [t \in Threads |-> None]
    /\ grabs = [t \in Threads |-> 0]
    /\ conns = [c \in CamIds |-> 0]
    /\ vpc = [v \in Viewers |-> "idle"]
    /\ vcam = [v \in Viewers |-> UnknownId]
    /\ resp = [v \in Viewers |-> NoResp]
    /\ firstOk = [c \in CamIds |-> None]
    /\ lastGood = [c \in CamIds |-> None]
    /\ pdata = [v \in Viewers |-> <<>>]
    /\ polls = [v \in Viewers |-> 0]
    /\ size = [v \in Viewers |-> <<0, 0>>]
    /\ presp = [v \in Viewers |-> NoPResp]
    /\ settled = [i \in PolyIds |-> NoPost]
    /\ clean = [v \in Viewers |-> TRUE]

\* cv2.imencode of a frame: "ok" returns (True, buffer), "fail" returns
\* (False, ...), "raise" raises cv2.error.
AllEncodable == [f \in Frames |-> "ok"]

\* Every frame the cameras deliver can be encoded.
Init ==
    /\ InitCore
    /\ encoding = AllEncodable
    /\ files = NoFiles

\* The Camera a thread works on: the main thread constructs the camera of the
\* current config entry, an updater thread belongs to its own camera.
Cam(t) == IF t = "main" THEN config[cur].id ELSE t

\* Positions inside _update_frame (lines 102-113 and the call at line 105).
AttemptPcs == {"open", "grab", "read", "release", "lock", "store", "width"}
InAttempt(t) == pc[t] \in AttemptPcs
\* Threads running _update_frame for camera c.
Attempting(c) == {t \in Threads : InAttempt(t) /\ Cam(t) = c}

\* Where a thread continues when its _update_frame call returns: the main
\* thread goes on in __init__ (line 68), an updater goes back to sleep.
AfterAttempt(t) == IF t = "main" THEN "start" ELSE "sleep"

\* ------------------------------------------------------- start-up (main)

\* Lines 140-142: open and parse config.json; any failure is caught at 146.
MainLoad ==
    /\ pc["main"] = "load"
    /\ IF fileOk
          THEN /\ pc' = [pc EXCEPT !["main"] = "loop"]
               /\ UNCHANGED loadFailed
          ELSE /\ pc' = [pc EXCEPT !["main"] = "serve"]
               /\ loadFailed' = TRUE
    /\ UNCHANGED <<fileOk, config, cur, cameras, camVars, cap, lframe, grabs,
                   viewVars, histVars>>
    /\ UNCHANGED apiVars

\* Fault variant of MainLoop: __init__ starts the updater thread (line 68)
\* before its own _update_frame call (line 67).
MainLoopStartFirst ==
    /\ pc["main"] = "loop"
    /\ IF cur > Len(config)
          THEN /\ pc' = [pc EXCEPT !["main"] = "serve"]
               /\ UNCHANGED <<loadFailed, frame, frame_width, frame_height, lock>>
          ELSE IF ~config[cur].hasUrl
          THEN /\ pc' = [pc EXCEPT !["main"] = "serve"]
               /\ loadFailed' = TRUE
               /\ UNCHANGED <<frame, frame_width, frame_height, lock>>
          ELSE /\ frame' = [frame EXCEPT ![config[cur].id] = None]
               /\ frame_width' = [frame_width EXCEPT ![config[cur].id] = 0]
               /\ frame_height' = [frame_height EXCEPT ![config[cur].id] = 0]
               /\ lock' = [lock EXCEPT ![config[cur].id] = FALSE]
               /\ pc' = [pc EXCEPT !["main"] = "open", ![config[cur].id] = "sleep"]
               /\ UNCHANGED loadFailed
    /\ UNCHANGED <<fileOk, config, cur, cameras, conns, cap, lframe, grabs,
                   viewVars, histVars>>
    /\ UNCHANGED apiVars

\* Line 143 and the right-hand side of line 144: the next entry, its
\* rtsp_url (KeyError when missing), and Camera.__init__ up to the call of
\* _update_frame at line 67.
MainLoop ==
    /\ pc["main"] = "loop"
    /\ IF cur > Len(config)
          THEN /\ pc' = [pc EXCEPT !["main"] = "serve"]
               /\ UNCHANGED <<loadFailed, frame, frame_width, frame_height, lock>>
          ELSE IF ~config[cur].hasUrl
          THEN /\ pc' = [pc EXCEPT !["main"] = "serve"]
               /\ loadFailed' = TRUE
               /\ UNCHANGED <<frame, frame_width, frame_height, lock>>
          ELSE /\ frame' = [frame EXCEPT ![config[cur].id] = None]
               /\ frame_width' = [frame_width EXCEPT ![config[cur].id] = 0]
               /\ frame_height' = [frame_height EXCEPT ![config[cur].id] = 0]
               /\ lock' = [lock EXCEPT ![config[cur].id] = FALSE]
               /\ pc' = [pc EXCEPT !["main"] = "open"]
               /\ UNCHANGED loadFailed
    /\ UNCHANGED <<fileOk, config, cur, cameras, conns, cap, lframe, grabs,
                   viewVars, histVars>>
    /\ UNCHANGED apiVars

\* Line 68: self.thread.start(); the updater begins with its sleep.
MainStart ==
    /\ pc["main"] = "start"
    /\ pc' = [pc EXCEPT !["main"] = "register", ![Cam("main")] = "sleep"]
    /\ UNCHANGED <<mainVars, camVars, cap, lframe, grabs, viewVars, histVars>>
    /\ UNCHANGED apiVars

\* The store of line 144: cameras[config['id']] = <the new Camera>, a
\* KeyError when the entry has no id (caught at line 146).
MainRegister ==
    /\ pc["main"] = "register"
    /\ IF config[cur].hasId
          THEN /\ cameras' = cameras \cup {config[cur].id}
               /\ cur' = cur + 1
               /\ pc' = [pc EXCEPT !["main"] = "loop"]
               /\ UNCHANGED loadFailed
          ELSE /\ loadFailed' = TRUE
               /\ pc' = [pc EXCEPT !["main"] = "serve"]
               /\ UNCHANGED <<cameras, cur>>
    /\ UNCHANGED <<fileOk, config, camVars, cap, lframe, grabs, viewVars,
                   histVars>>
    /\ UNCHANGED apiVars

\* ------------------------------------------ one attempt (_update_frame)

\* Lines 117-119: the updater wakes from time.sleep and calls _update_frame.
UpdaterWake(c) ==
    /\ pc[c] = "sleep"
    /\ pc' = [pc EXCEPT ![c] = "open"]
    /\ UNCHANGED <<mainVars, camVars, cap, lframe, grabs, viewVars, histVars>>
    /\ UNCHANGED apiVars

\* Fault variant of Open: without the except clause of line 94 an exception
\* of cv2.VideoCapture leaves _update_frame; it ends an updater thread and,
\* in the main thread, is caught by the start-up except of line 146.
OpenUncaught(t) ==
    /\ pc[t] = "open"
    /\ \E outcome \in {"raise", "closed", "opened"} :
          /\ cap' = [cap EXCEPT ![t] = IF outcome = "raise" THEN "none" ELSE outcome]
          /\ conns' = [conns EXCEPT ![Cam(t)] =
                          IF outcome = "raise" THEN @ ELSE @ + 1]
          /\ pc' = [pc EXCEPT ![t] =
                       IF outcome = "opened" THEN "grab"
                       ELSE IF outcome = "closed" THEN "release"
                       ELSE IF t = "main" THEN "serve" ELSE "dead"]
          /\ loadFailed' = (loadFailed \/ (outcome = "raise" /\ t = "main"))
    /\ lframe' = [lframe EXCEPT ![t] = None]
    /\ grabs' = [grabs EXCEPT ![t] = 0]
    /\ UNCHANGED <<fileOk, config, cur, cameras, frame, frame_width,
                   frame_height, lock, viewVars, histVars>>
    /\ UNCHANGED apiVars

\* Lines 72-82: cv2.VideoCapture(url) raises, or returns a capture that
\* reports not opened (return None), or one that is opened.
Open(t) ==
    /\ pc[t] = "open"
    /\ \E outcome \in {"raise", "closed", "opened"} :
          /\ cap' = [cap EXCEPT ![t] = IF outcome = "raise" THEN "none" ELSE outcome]
          /\ conns' = [conns EXCEPT ![Cam(t)] =
                          IF outcome = "raise" THEN @ ELSE @ + 1]
          /\ pc' = [pc EXCEPT ![t] = IF outcome = "opened" THEN "grab" ELSE "release"]
    /\ lframe' = [lframe EXCEPT ![t] = None]
    /\ grabs' = [grabs EXCEPT ![t] = 0]
    /\ UNCHANGED <<mainVars, frame, frame_width, frame_height, lock, viewVars,
                   histVars>>
    /\ UNCHANGED apiVars

\* Fault variant of Grab: _update_frame calls _get_latest_frame_from_rtsp
\* without skip_frames=FRAMES_TO_SKIP, so the default of line 70 applies.
GrabDefaultSkip(t) ==
    /\ pc[t] = "grab"
    /\ \E k \in 0..5 :
          IF k < 5
             THEN /\ pc' = [pc EXCEPT ![t] = "release"]
                  /\ grabs' = [grabs EXCEPT ![t] = 0]
             ELSE /\ pc' = [pc EXCEPT ![t] = "read"]
                  /\ grabs' = [grabs EXCEPT ![t] = k]
    /\ UNCHANGED <<mainVars, camVars, cap, lframe, viewVars, histVars>>
    /\ UNCHANGED apiVars

\* Lines 85-87: the skip loop, skip_frames calls of cap.grab().  The loop is
\* local to the thread, so it is one step: k calls return and, when
\* k < skip_frames, the next one raises (caught at line 94).
Grab(t) ==
    /\ pc[t] = "grab"
    /\ \E k \in 0..FRAMES_TO_SKIP :
          IF k < FRAMES_TO_SKIP
             THEN /\ pc' = [pc EXCEPT ![t] = "release"]
                  /\ grabs' = [grabs EXCEPT ![t] = 0]
             ELSE /\ pc' = [pc EXCEPT ![t] = "read"]
                  /\ grabs' = [grabs EXCEPT ![t] = k]
    /\ UNCHANGED <<mainVars, camVars, cap, lframe, viewVars, histVars>>
    /\ UNCHANGED apiVars

\* Fault variant of Read: an exception of cap.read() is not caught at line
\* 94; the finally block still releases the capture, then the exception ends
\* an updater thread or, in the main thread, the start-up loop (line 146).
ReadUncaught(t) ==
    /\ pc[t] = "read"
    /\ \/ /\ \E f \in Frames \cup {None} :
                /\ lframe' = [lframe EXCEPT ![t] = f]
                /\ IF f # None
                      THEN /\ lastGood' = [lastGood EXCEPT ![Cam(t)] = f]
                           /\ firstOk' = [firstOk EXCEPT ![Cam(t)] =
                                             IF @ = None THEN f ELSE @]
                      ELSE UNCHANGED histVars
          /\ pc' = [pc EXCEPT ![t] = "release"]
          /\ UNCHANGED <<loadFailed, cap, conns>>
       \/ /\ cap' = [cap EXCEPT ![t] = "none"]
          /\ conns' = [conns EXCEPT ![Cam(t)] = @ - 1]
          /\ pc' = [pc EXCEPT ![t] = IF t = "main" THEN "serve" ELSE "dead"]
          /\ loadFailed' = (loadFailed \/ t = "main")
          /\ UNCHANGED <<lframe, histVars>>
    /\ grabs' = [grabs EXCEPT ![t] = 0]
    /\ UNCHANGED <<fileOk, config, cur, cameras, frame, frame_width,
                   frame_height, lock, viewVars>>
    /\ UNCHANGED apiVars

\* Lines 90-96: ret, frame = cap.read(); return frame if ret else None; an
\* exception is caught and None returned.
Read(t) ==
    /\ pc[t] = "read"
    /\ \E f \in Frames \cup {None} :
          /\ lframe' = [lframe EXCEPT ![t] = f]
          /\ IF f # None
                THEN /\ lastGood' = [lastGood EXCEPT ![Cam(t)] = f]
                     /\ firstOk' = [firstOk EXCEPT ![Cam(t)] =
                                       IF @ = None THEN f ELSE @]
                ELSE UNCHANGED histVars
    /\ pc' = [pc EXCEPT ![t] = "release"]
    /\ grabs' = [grabs EXCEPT ![t] = 0]
    /\ UNCHANGED <<mainVars, camVars, cap, viewVars>>
    /\ UNCHANGED apiVars

\* Fault variant of Release: cap.release() sits on the success path only
\* instead of in a finally block.
ReleaseOnSuccessOnly(t) ==
    /\ pc[t] = "release"
    /\ IF cap[t] # "none" /\ lframe[t] # None
          THEN /\ conns' = [conns EXCEPT ![Cam(t)] = @ - 1]
               /\ cap' = [cap EXCEPT ![t] = "none"]
          ELSE UNCHANGED <<conns, cap>>
    /\ pc' = [pc EXCEPT ![t] = IF lframe[t] # None THEN "lock" ELSE AfterAttempt(t)]
    /\ UNCHANGED <<mainVars, frame, frame_width, frame_height, lock, lframe,
                   grabs, viewVars, histVars>>
    /\ UNCHANGED apiVars

\* Fault variant of Release: the else branch of line 112 also clears the
\* cache (self.frame = None) when no frame could be read.
ReleaseClearOnFailure(t) ==
    /\ pc[t] = "release"
    /\ IF cap[t] # "none"
          THEN /\ conns' = [conns EXCEPT ![Cam(t)] = @ - 1]
               /\ cap' = [cap EXCEPT ![t] = "none"]
          ELSE UNCHANGED <<conns, cap>>
    /\ pc' = [pc EXCEPT ![t] = IF lframe[t] # None THEN "lock" ELSE AfterAttempt(t)]
    /\ frame' = [frame EXCEPT ![Cam(t)] = IF lframe[t] # None THEN @ ELSE None]
    /\ UNCHANGED <<mainVars, frame_width, frame_height, lock, lframe,
                   grabs, viewVars, histVars>>
    /\ UNCHANGED apiVars

\* Lines 97-100 and 106/112-113: the finally block releases the capture if
\* one was created; back in _update_frame a None frame ends the attempt.
Release(t) ==
    /\ pc[t] = "release"
    /\ IF cap[t] # "none"
          THEN /\ conns' = [conns EXCEPT ![Cam(t)] = @ - 1]
               /\ cap' = [cap EXCEPT ![t] = "none"]
          ELSE UNCHANGED <<conns, cap>>
    /\ pc' = [pc EXCEPT ![t] = IF lframe[t] # None THEN "lock" ELSE AfterAttempt(t)]
    /\ UNCHANGED <<mainVars, frame, frame_width, frame_height, lock, lframe,
                   grabs, viewVars, histVars>>
    /\ UNCHANGED apiVars

\* Line 107: with self.lock (blocks while the lock is held).
Acquire(t) ==
    /\ pc[t] = "lock"
    /\ ~lock[Cam(t)]
    /\ lock' = [lock EXCEPT ![Cam(t)] = TRUE]
    /\ pc' = [pc EXCEPT ![t] = "store"]
    /\ UNCHANGED <<mainVars, frame, frame_width, frame_height, conns, cap,
                   lframe, grabs, viewVars, histVars>>
    /\ UNCHANGED apiVars

\* Fault variant of StoreFrame: the dimensions are stored on every write,
\* without the frame_width == 0 test of line 109.
StoreFrameNoLatch(t) ==
    /\ pc[t] = "store"
    /\ frame' = [frame EXCEPT ![Cam(t)] = lframe[t]]
    /\ frame_height' = [frame_height EXCEPT ![Cam(t)] = Shape(lframe[t])[1]]
    /\ pc' = [pc EXCEPT ![t] = "width"]
    /\ UNCHANGED <<mainVars, frame_width, lock, lframe, conns, cap, grabs,
                   viewVars, histVars>>
    /\ UNCHANGED apiVars

\* Lines 108-110: self.frame = frame; if frame_width == 0 the height is
\* stored first (the tuple assignment stores left to right), else the with
\* block ends and the lock is released.
StoreFrame(t) ==
    /\ pc[t] = "store"
    /\ frame' = [frame EXCEPT ![Cam(t)] = lframe[t]]
    /\ IF frame_width[Cam(t)] = 0
          THEN /\ frame_height' = [frame_height EXCEPT ![Cam(t)] = Shape(lframe[t])[1]]
               /\ pc' = [pc EXCEPT ![t] = "width"]
               /\ UNCHANGED <<lock, lframe>>
          ELSE /\ lock' = [lock EXCEPT ![Cam(t)] = FALSE]
               /\ pc' = [pc EXCEPT ![t] = AfterAttempt(t)]
               /\ lframe' = [lframe EXCEPT ![t] = None]
               /\ UNCHANGED frame_height
    /\ UNCHANGED <<mainVars, frame_width, conns, cap, grabs, viewVars, histVars>>
    /\ UNCHANGED apiVars

\* Line 110, second store, and the end of the with block.
StoreWidth(t) ==
    /\ pc[t] = "width"
    /\ frame_width' = [frame_width EXCEPT ![Cam(t)] = Shape(lframe[t])[2]]
    /\ lock' = [lock EXCEPT ![Cam(t)] = FALSE]
    /\ pc' = [pc EXCEPT ![t] = AfterAttempt(t)]
    /\ lframe' = [lframe EXCEPT ![t] = None]
    /\ UNCHANGED <<mainVars, frame, frame_height, conns, cap, grabs, viewVars,
                   histVars>>
    /\ UNCHANGED apiVars

\* _update_frame as run by thread t.
UpdateFrame(t) ==
    \/ Open(t)
    \/ Grab(t)
    \/ Read(t)
    \/ Release(t)
    \/ Acquire(t)
    \/ StoreFrame(t)
    \/ StoreWidth(t)

Main == MainLoad \/ MainLoop \/ MainStart \/ MainRegister \/ UpdateFrame("main")

Updater(c) == UpdaterWake(c) \/ UpdateFrame(c)

\* ------------------------------------------------- requests (video_feed)

RequestIds == CamIds \cup {UnknownId}

\* The request threads of the run: those left beside the cameras' updaters.
Clients == 1..(MaxThreads - Len(config))

NotFound == [status |-> 404, text |-> "Kamera topilmadi", jpeg |-> <<>>]
NoFrameYet == [status |-> 404, text |-> "Rasm mavjud emas", jpeg |-> <<>>]
ServerError == [status |-> 500, text |-> "Internal Server Error", jpeg |-> <<>>]
JpegResponse(bytes) == [status |-> 200, text |-> "", jpeg |-> bytes]

\* cv2.imencode('.jpg', img): raises on None (or on a frame it rejects); for
\* a decoded frame it returns (ret, buffer), the buffer carrying the frame's
\* height and width when ret is True.
imencode(img) ==
    IF img = None \/ encoding[img] = "raise"
       THEN [raised |-> TRUE, ret |-> FALSE, buffer |-> <<>>]
       ELSE IF encoding[img] = "fail"
       THEN [raised |-> FALSE, ret |-> FALSE, buffer |-> <<>>]
       ELSE [raised |-> FALSE, ret |-> TRUE,
             buffer |-> <<Shape(img)[1], Shape(img)[2], img>>]

\* Fault variant of VideoFeed: without the test of line 168 the call
\* camera.get_jpeg_frame() on None raises and the request ends in a 500.
VideoFeedNoLookupTest(v) ==
    /\ vpc[v] = "idle"
    /\ pc["main"] = "serve"
    /\ v \in Clients
    /\ \E id \in RequestIds :
          /\ vcam' = [vcam EXCEPT ![v] = id]
          /\ IF id \notin cameras
                THEN /\ resp' = [resp EXCEPT ![v] = ServerError]
                     /\ vpc' = [vpc EXCEPT ![v] = "done"]
                ELSE /\ vpc' = [vpc EXCEPT ![v] = "acquire"]
                     /\ UNCHANGED resp
    /\ UNCHANGED <<mainVars, camVars, pc, cap, lframe, grabs, histVars>>
    /\ UNCHANGED apiVars

\* Lines 167-169: a request arrives once the server runs; the registry
\* lookup answers an unknown id with 404.
VideoFeed(v) ==
    /\ vpc[v] = "idle"
    /\ pc["main"] = "serve"
    /\ v \in Clients
    /\ \E id \in RequestIds :
          /\ vcam' = [vcam EXCEPT ![v] = id]
          /\ IF id \notin cameras
                THEN /\ resp' = [resp EXCEPT ![v] = NotFound]
                     /\ vpc' = [vpc EXCEPT ![v] = "done"]
                ELSE /\ vpc' = [vpc EXCEPT ![v] = "acquire"]
                     /\ UNCHANGED resp
    /\ UNCHANGED <<mainVars, camVars, pc, cap, lframe, grabs, histVars>>
    /\ UNCHANGED apiVars

\* Fault variant of GetJpegAcquire: get_jpeg_frame reads the cache without
\* waiting for the lock.
GetJpegAcquireNoWait(v) ==
    /\ vpc[v] = "acquire"
    /\ lock' = [lock EXCEPT ![vcam[v]] = TRUE]
    /\ vpc' = [vpc EXCEPT ![v] = "check"]
    /\ UNCHANGED <<mainVars, frame, frame_width, frame_height, conns, pc, cap,
                   lframe, grabs, vcam, resp, histVars>>
    /\ UNCHANGED apiVars

\* Line 123: with self.lock.
GetJpegAcquire(v) ==
    /\ vpc[v] = "acquire"
    /\ ~lock[vcam[v]]
    /\ lock' = [lock EXCEPT ![vcam[v]] = TRUE]
    /\ vpc' = [vpc EXCEPT ![v] = "check"]
    /\ UNCHANGED <<mainVars, frame, frame_width, frame_height, conns, pc, cap,
                   lframe, grabs, vcam, resp, histVars>>
    /\ UNCHANGED apiVars

\* Fault variant of GetJpegCheck: without the None test of line 124 the
\* cached value goes to cv2.imencode as it is.
GetJpegCheckNoNoneTest(v) ==
    /\ vpc[v] = "check"
    /\ vpc' = [vpc EXCEPT ![v] = "encode"]
    /\ UNCHANGED <<mainVars, camVars, pc, cap, lframe, grabs, vcam, resp,
                   histVars>>
    /\ UNCHANGED apiVars

\* Fault variant of GetJpegCheck: the early return of line 124 leaves the
\* lock held (an acquire() without a with block or a release on that path).
GetJpegCheckNoRelease(v) ==
    /\ vpc[v] = "check"
    /\ IF frame[vcam[v]] = None
          THEN /\ resp' = [resp EXCEPT ![v] = NoFrameYet]
               /\ vpc' = [vpc EXCEPT ![v] = "done"]
          ELSE /\ vpc' = [vpc EXCEPT ![v] = "encode"]
               /\ UNCHANGED resp
    /\ UNCHANGED <<mainVars, camVars, pc, cap, lframe, grabs, vcam, histVars>>
    /\ UNCHANGED apiVars

\* Line 124 (and 172-173): an empty cache returns None, the lock is released
\* and video_feed answers 404; otherwise cv2.imencode is entered.
GetJpegCheck(v) ==
    /\ vpc[v] = "check"
    /\ IF frame[vcam[v]] = None
          THEN /\ lock' = [lock EXCEPT ![vcam[v]] = FALSE]
               /\ resp' = [resp EXCEPT ![v] = NoFrameYet]
               /\ vpc' = [vpc EXCEPT ![v] = "done"]
          ELSE /\ vpc' = [vpc EXCEPT ![v] = "encode"]
               /\ UNCHANGED <<lock, resp>>
    /\ UNCHANGED <<mainVars, frame, frame_width, frame_height, conns, pc, cap,
                   lframe, grabs, vcam, histVars>>
    /\ UNCHANGED apiVars

\* Fault variant of GetJpegEncode: a frame that cannot be encoded is dropped
\* from the cache (self.frame = None) before get_jpeg_frame returns.
GetJpegEncodeDropBad(v) ==
    /\ vpc[v] = "encode"
    /\ LET r == imencode(frame[vcam[v]])
       IN  /\ resp' = [resp EXCEPT ![v] =
                          IF r.raised THEN ServerError
                          ELSE IF r.ret THEN JpegResponse(r.buffer)
                          ELSE NoFrameYet]
           /\ frame' = [frame EXCEPT ![vcam[v]] =
                           IF r.raised \/ ~r.ret THEN None ELSE @]
    /\ lock' = [lock EXCEPT ![vcam[v]] = FALSE]
    /\ vpc' = [vpc EXCEPT ![v] = "done"]
    /\ UNCHANGED <<mainVars, frame_width, frame_height, conns, pc, cap,
                   lframe, grabs, vcam, histVars>>
    /\ UNCHANGED apiVars

\* Lines 125-126 and 171-175: imencode returns, the with block releases the
\* lock, and video_feed builds the response from the bytes (None: 404).
GetJpegEncode(v) ==
    /\ vpc[v] = "encode"
    /\ LET r == imencode(frame[vcam[v]])
       IN  resp' = [resp EXCEPT ![v] =
                       IF r.raised THEN ServerError
                       ELSE IF r.ret THEN JpegResponse(r.buffer)
                       ELSE NoFrameYet]
    /\ lock' = [lock EXCEPT ![vcam[v]] = FALSE]
    /\ vpc' = [vpc EXCEPT ![v] = "done"]
    /\ UNCHANGED <<mainVars, frame, frame_width, frame_height, conns, pc, cap,
                   lframe, grabs, vcam, histVars>>
    /\ UNCHANGED apiVars

\* The response has been sent; the thread is free for the next request.
Finish(v) ==
    /\ vpc[v] = "done"
    /\ vpc' = [vpc EXCEPT ![v] = "idle"]
    /\ vcam' = [vcam EXCEPT ![v] = UnknownId]
    /\ resp' = [resp EXCEPT ![v] = NoResp]
    /\ UNCHANGED <<mainVars, camVars, pc, cap, lframe, grabs, histVars>>
    /\ UNCHANGED apiVars

Viewer(v) ==
    \/ VideoFeed(v)
    \/ GetJpegAcquire(v)
    \/ GetJpegCheck(v)
    \/ GetJpegEncode(v)
    \/ Finish(v)

\* ------------------------------------- /api/polygons (handle_polygons)

\* json.dump of an array (line 204): "[", the items separated by ",", "]"
\* (the white space of indent=2 is left out).
RECURSIVE Items(_)
Items(P) ==
    IF Len(P) <= 1 THEN P ELSE <<Head(P), ",">> \o Items(Tail(P))
Dump(P) == <<"[">> \o Items(P) \o <<"]">>

\* json.loads (line 187): the text parses when it is a bracketed list of
\* items separated by commas; anything else raises.
Punct == {"[", "]", ","}
Parses(text) ==
    /\ Len(text) >= 2
    /\ text[1] = "[" /\ text[Len(text)] = "]"
    /\ LET n == Len(text) - 2
       IN  \/ n = 0
           \/ /\ n % 2 = 1
              /\ \A i \in 1..n :
                    IF i % 2 = 1 THEN text[i + 1] \notin Punct
                                 ELSE text[i + 1] = ","
Loads(text) ==
    IF Parses(text)
       THEN [ok |-> TRUE,
             value |-> [i \in 1..((Len(text) - 1) \div 2) |-> text[2 * i]]]
       ELSE [ok |-> FALSE, value |-> <<>>]

\* A write of new at offset 0 of a file opened with 'w' whose content
\* is old by the time the buffer is flushed.
Overwrite(old, new) == new \o SubSeq(old, Len(new) + 1, Len(old))

\* The JSON bodies handle_polygons answers with (lines 194-199, 205-208).
GetOk(P, wh) ==
    [kind |-> "get", status |-> 200, polygons |-> P, size |-> wh, error |-> FALSE]
GetError ==
    [kind |-> "get", status |-> 200, polygons |-> <<>>, size |-> <<>>, error |-> TRUE]
PostOk ==
    [kind |-> "post", status |-> 200, polygons |-> <<>>, size |-> <<>>, error |-> FALSE]
PostError ==
    [kind |-> "post", status |-> 500, polygons |-> <<>>, size |-> <<>>, error |-> TRUE]

\* Positions of a POST between its arrival and its response.
PostPcs == {"popen", "pwrite"}
Posting(id) == {u \in Viewers : vpc[u] \in PostPcs /\ vcam[u] = id}
\* Positions of a GET between its arrival and its response.
GetPcs == {"pread", "pcam", "poll", "dwidth", "dheight"}

\* Lines 181-185: a GET arrives; polygons_data = [] and os.path.exists.
PolyGetBegin(v) ==
    /\ vpc[v] = "idle"
    /\ pc["main"] = "serve"
    /\ v \in Clients
    /\ \E id \in PolyIds :
          /\ vcam' = [vcam EXCEPT ![v] = id]
          /\ clean' = [clean EXCEPT ![v] = (Posting(id) = {})]
          /\ vpc' = [vpc EXCEPT ![v] = IF files[id] = Absent THEN "pcam" ELSE "pread"]
    /\ pdata' = [pdata EXCEPT ![v] = <<>>]
    /\ UNCHANGED <<mainVars, camVars, pc, cap, lframe, grabs, resp, histVars,
                   encoding, files, polls, size, presp, settled>>

\* Lines 185-187: the file is read; an empty text keeps [], any other text
\* goes through json.loads, whose exception ends the request at line 198.
PolyGetRead(v) ==
    /\ vpc[v] = "pread"
    /\ LET content == files[vcam[v]]
       IN  IF content = <<>>
              THEN /\ vpc' = [vpc EXCEPT ![v] = "pcam"]
                   /\ UNCHANGED <<pdata, presp>>
              ELSE IF Loads(content).ok
              THEN /\ pdata' = [pdata EXCEPT ![v] = Loads(content).value]
                   /\ vpc' = [vpc EXCEPT ![v] = "pcam"]
                   /\ UNCHANGED presp
              ELSE /\ presp' = [presp EXCEPT ![v] = GetError]
                   /\ vpc' = [vpc EXCEPT ![v] = "pdone"]
                   /\ UNCHANGED pdata
    /\ UNCHANGED <<mainVars, camVars, pc, cap, lframe, grabs, vcam, resp,
                   histVars, encoding, files, polls, size, settled, clean>>

\* Lines 189-197: the registry lookup; without a camera the size is (0, 0)
\* and the response is built, with one get_frame_dimensions is entered.
PolyGetCam(v) ==
    /\ vpc[v] = "pcam"
    /\ IF vcam[v] \in cameras
          THEN /\ vpc' = [vpc EXCEPT ![v] = "poll"]
               /\ UNCHANGED presp
          ELSE /\ presp' = [presp EXCEPT ![v] = GetOk(pdata[v], <<0, 0>>)]
               /\ vpc' = [vpc EXCEPT ![v] = "pdone"]
    /\ UNCHANGED <<mainVars, camVars, pc, cap, lframe, grabs, vcam, resp,
                   histVars, encoding, files, pdata, polls, size, settled, clean>>

\* Fault variant of DimPoll: while self.frame_width == 0 instead of
\* for _ in range(50), a loop that only a latched width ends (the count of
\* sleeps is kept up to DIM_POLLS + 1).
DimPollUnbounded(v) ==
    /\ vpc[v] = "poll"
    /\ IF frame_width[vcam[v]] > 0
          THEN /\ vpc' = [vpc EXCEPT ![v] = "dwidth"]
               /\ UNCHANGED polls
          ELSE /\ polls' = [polls EXCEPT ![v] =
                              IF @ > DIM_POLLS THEN @ ELSE @ + 1]
               /\ UNCHANGED vpc
    /\ UNCHANGED <<mainVars, camVars, pc, cap, lframe, grabs, vcam, resp,
                   histVars, encoding, files, pdata, size, presp, settled, clean>>

\* Lines 130-133: one iteration of the loop of get_frame_dimensions: after 50
\* sleeps the loop is exhausted; a positive frame_width breaks out of it;
\* otherwise time.sleep(0.1).
DimPoll(v) ==
    /\ vpc[v] = "poll"
    /\ IF polls[v] = DIM_POLLS \/ frame_width[vcam[v]] > 0
          THEN /\ vpc' = [vpc EXCEPT ![v] = "dwidth"]
               /\ UNCHANGED polls
          ELSE /\ polls' = [polls EXCEPT ![v] = @ + 1]
               /\ UNCHANGED vpc
    /\ UNCHANGED <<mainVars, camVars, pc, cap, lframe, grabs, vcam, resp,
                   histVars, encoding, files, pdata, size, presp, settled, clean>>

\* Line 134, first element of the returned tuple: self.frame_width is read.
DimWidth(v) ==
    /\ vpc[v] = "dwidth"
    /\ size' = [size EXCEPT ![v] = <<frame_width[vcam[v]], @[2]>>]
    /\ polls' = [polls EXCEPT ![v] = 0]
    /\ vpc' = [vpc EXCEPT ![v] = "dheight"]
    /\ UNCHANGED <<mainVars, camVars, pc, cap, lframe, grabs, vcam, resp,
                   histVars, encoding, files, pdata, presp, settled, clean>>

\* Line 134, second element: self.frame_height is read and the pair returned;
\* lines 192-197 build the response from it.
DimHeight(v) ==
    /\ vpc[v] = "dheight"
    /\ LET wh == <<size[v][1], frame_height[vcam[v]]>>
       IN  /\ size' = [size EXCEPT ![v] = wh]
           /\ presp' = [presp EXCEPT ![v] = GetOk(pdata[v], wh)]
    /\ vpc' = [vpc EXCEPT ![v] = "pdone"]
    /\ UNCHANGED <<mainVars, camVars, pc, cap, lframe, grabs, vcam, resp,
                   histVars, encoding, files, pdata, polls, settled, clean>>

\* The response has been sent; the thread is free for the next request.
PolyFinish(v) ==
    /\ vpc[v] = "pdone"
    /\ vpc' = [vpc EXCEPT ![v] = "idle"]
    /\ vcam' = [vcam EXCEPT ![v] = UnknownId]
    /\ pdata' = [pdata EXCEPT ![v] = <<>>]
    /\ size' = [size EXCEPT ![v] = <<0, 0>>]
    /\ presp' = [presp EXCEPT ![v] = NoPResp]
    /\ clean' = [clean EXCEPT ![v] = TRUE]
    /\ UNCHANGED <<mainVars, camVars, pc, cap, lframe, grabs, resp, histVars,
                   encoding, files, polls, settled>>

\* get_frame_dimensions as called at line 192.
GetFrameDimensions(v) == DimPoll(v) \/ DimWidth(v) \/ DimHeight(v)

PolygonsGet(v) ==
    \/ PolyGetBegin(v)
    \/ PolyGetRead(v)
    \/ PolyGetCam(v)
    \/ GetFrameDimensions(v)
    \/ PolyFinish(v)

\* Line 201: a POST arrives and request.get_json() returns the array.  Every
\* GET for the same id that is under way, or whose response has not been
\* delivered yet, is from now on not a GET after the latest POST.
PolyPostBegin(v) ==
    /\ vpc[v] = "idle"
    /\ pc["main"] = "serve"
    /\ v \in Clients
    /\ \E id \in PolyIds, P \in Polys :
          /\ vcam' = [vcam EXCEPT ![v] = id]
          /\ pdata' = [pdata EXCEPT ![v] = P]
          /\ clean' = [u \in Viewers |->
                          clean[u] /\ ~(vpc[u] \in GetPcs \cup {"pdone"} /\ vcam[u] = id)]
    /\ vpc' = [vpc EXCEPT ![v] = "popen"]
    /\ UNCHANGED <<mainVars, camVars, pc, cap, lframe, grabs, resp, histVars,
                   encoding, files, polls, size, presp, settled>>

\* Line 203: open(polygon_file, 'w') creates or truncates the file, or raises
\* (caught at line 207: status 500).
PolyPostOpen(v) ==
    /\ vpc[v] = "popen"
    /\ \/ /\ files' = [files EXCEPT ![vcam[v]] = <<>>]
          /\ vpc' = [vpc EXCEPT ![v] = "pwrite"]
          /\ UNCHANGED <<presp, settled>>
       \/ /\ presp' = [presp EXCEPT ![v] = PostError]
          /\ settled' = [settled EXCEPT ![vcam[v]] = Unsettled]
          /\ vpc' = [vpc EXCEPT ![v] = "pdone"]
          /\ UNCHANGED files
    /\ UNCHANGED <<mainVars, camVars, pc, cap, lframe, grabs, vcam, resp,
                   histVars, encoding, pdata, polls, size, clean>>

\* Lines 204-205: json.dump fills the buffer of f, leaving the with block
\* flushes it to the file at this handle's offset 0, and the success body is
\* returned.
PolyPostWrite(v) ==
    /\ vpc[v] = "pwrite"
    /\ files' = [files EXCEPT ![vcam[v]] = Overwrite(@, Dump(pdata[v]))]
    /\ presp' = [presp EXCEPT ![v] = PostOk]
    /\ settled' = [settled EXCEPT ![vcam[v]] = pdata[v]]
    /\ vpc' = [vpc EXCEPT ![v] = "pdone"]
    /\ UNCHANGED <<mainVars, camVars, pc, cap, lframe, grabs, vcam, resp,
                   histVars, encoding, pdata, polls, size, clean>>

PolygonsPost(v) ==
    \/ PolyPostBegin(v)
    \/ PolyPostOpen(v)
    \/ PolyPostWrite(v)

\* --------------------------------------------------------- specification

Next ==
    \/ Main
    \/ \E c \in CamIds : Updater(c)
    \/ \E v \in Viewers : Viewer(v)

Spec == Init /\ [][Next]_vars

\* Fairness: the scheduler lets every updater thread that can take a step
\* take one eventually (time.sleep returns, a capture call returns).
FairSpec == Spec /\ \A c \in CamIds : WF_vars(Updater(c))

\* Runs in which cv2.imencode does not accept the second frame: it returns
\* ret = False for it, or raises.
EncodingFaults ==
    { [f \in Frames |-> IF f = 1 THEN "ok" ELSE "fail"],
      [f \in Frames |-> IF f = 1 THEN "ok" ELSE "raise"] }

EncInit ==
    /\ InitCore
    /\ encoding \in EncodingFaults
    /\ files = NoFiles

EncSpec == EncInit /\ [][Next]_vars

\* Fair scheduling of the lock users: a thread inside a critical section
\* keeps running (weak fairness), and a thread waiting in with self.lock gets
\* the lock if it is free again and again (strong fairness), in runs where
\* cv2.imencode may fail.  The runs have at most one configured camera, so
\* that the request threads contend for one lock with its writer.
LockInit ==
    /\ EncInit
    /\ Len(config) <= 1

LockFairSpec ==
    /\ LockInit /\ [][Next]_vars
    /\ \A v \in Viewers :
          /\ SF_vars(GetJpegAcquire(v))
          /\ WF_vars(GetJpegCheck(v) \/ GetJpegEncode(v))
    /\ \A t \in Threads :
          /\ SF_vars(Acquire(t))
          /\ WF_vars(StoreFrame(t) \/ StoreWidth(t))

\* The request thread that asks for the polygons of a camera.
Poller == 1

\* GET /api/polygons/<id> next to the start-up and the updater: at most one
\* configured camera, one GET at a time, and a polygons file that may be left
\* from an earlier run.
DimInit ==
    /\ InitCore
    /\ Len(config) <= 1
    /\ encoding = AllEncodable
    /\ files \in {NoFiles, [NoFiles EXCEPT !["cam1"] = Dump(<<"a">>)]}

DimNext ==
    \/ Main
    \/ \E c \in CamIds : Updater(c)
    \/ PolygonsGet(Poller)

\* The request thread keeps running once it is in get_frame_dimensions.
DimSpec ==
    /\ DimInit /\ [][DimNext]_vars
    /\ WF_vars(GetFrameDimensions(Poller))

\* The polygons API of a server that runs without cameras (the one entry of
\* config.json has no rtsp_url): handle_polygons never enters
\* get_frame_dimensions, and no polygons file exists yet.
PolyInit ==
    /\ InitCore
    /\ config = <<Entry("cam1", "nourl")>>
    /\ encoding = AllEncodable
    /\ files = NoFiles

PolyNext ==
    \/ MainLoad
    \/ MainLoop
    \/ \E v \in Viewers :
          \/ PolyGetBegin(v)
          \/ PolyGetRead(v)
          \/ PolyGetCam(v)
          \/ PolygonsPost(v)
          \/ PolyFinish(v)

PolySpec == PolyInit /\ [][PolyNext]_vars

\* ------------------------------------------------------ shared vocabulary

\* Threads inside the frame-assignment critical section of camera c.
Writers(c) == {t \in Threads : pc[t] \in {"store", "width"} /\ Cam(t) = c}
\* Request threads inside the critical section of get_jpeg_frame for c.
Readers(c) == {v \in Viewers : vpc[v] \in {"check", "encode"} /\ vcam[v] = c}
\* (width, height) as get_frame_dimensions returns them.
Dimensions(c) == <<frame_width[c], frame_height[c]>>
\* The JPEG bytes of frame f.
JpegOf(f) == <<Shape(f)[1], Shape(f)[2], f>>
\* Every entry of config.json has both keys and the file parses.
WellFormedConfig ==
    fileOk /\ \A i \in 1..Len(config) : config[i].hasId /\ config[i].hasUrl

\* ------------------------------------------------------------------- C1
\* C1: once an attempt for a camera has succeeded with an H x W frame (its
\* cache write is complete), the cached dimensions are (W, H) of that first
\* frame, whatever later attempts deliver, frames of another shape included.
C1_DimensionsLatched ==
    \A c \in CamIds :
        (firstOk[c] # None /\ frame[c] # None
            /\ \A t \in Attempting(c) : pc[t] # "width")
        => Dimensions(c) = <<Shape(firstOk[c])[2], Shape(firstOk[c])[1]>>

\* A later attempt has stored a frame of another shape and the updater is
\* between attempts: the dimensions are still those of the first frame.
C1_Witness ==
    \E c \in CamIds :
        /\ pc[c] = "sleep"
        /\ firstOk[c] # None /\ frame[c] # None
        /\ Shape(frame[c]) # Shape(firstOk[c])
        /\ Dimensions(c) = <<Shape(firstOk[c])[2], Shape(firstOk[c])[1]>>

\* ------------------------------------------------------------------- C2
\* C2: a cache that holds a frame never becomes absent again; whenever no
\* attempt is in flight the cache holds the frame of the latest successful
\* read (a failed attempt changes nothing); and a request that finds a frame
\* in the cache is answered 200 with the JPEG of exactly that frame.
C2_NoAttemptCacheIsLastGood ==
    \A c \in CamIds : Attempting(c) = {} => frame[c] = lastGood[c]

C2_StepKeepsFrame ==
    /\ \A c \in CamIds : frame[c] # None => frame'[c] # None
    /\ \A v \in Viewers :
          (vpc[v] \in {"check", "encode"} /\ vpc'[v] = "done"
              /\ frame[vcam[v]] # None)
          => resp'[v] = JpegResponse(JpegOf(frame[vcam[v]]))

C2_LastGoodFrameServed ==
    /\ [](C2_NoAttemptCacheIsLastGood)
    /\ [][C2_StepKeepsFrame]_vars

\* A read has failed on an opened connection after an earlier success, the
\* cache still holds the earlier frame, and a request is being served from it.
C2_Witness ==
    \E c \in CamIds, v \in Viewers :
        /\ pc[c] = "release" /\ lframe[c] = None /\ cap[c] = "opened"
        /\ frame[c] # None /\ frame[c] = lastGood[c]
        /\ vpc[v] = "encode" /\ vcam[v] = c

\* ------------------------------------------------------------------- C3
\* C3: a finished snapshot request for a registered camera whose cache is
\* absent has the NoFrameYet answer (404, plain text), never a server error,
\* wherever the camera's updater thread is.
C3_AbsentCacheGivesNoFrameYet ==
    \A v \in Viewers :
        (vpc[v] = "done" /\ vcam[v] \in cameras /\ frame[vcam[v]] = None)
        => resp[v] = NoFrameYet

\* A request for a registered camera has been answered NoFrameYet while that
\* camera's updater is in the middle of an attempt.
C3_Witness ==
    \E v \in Viewers :
        /\ vpc[v] = "done" /\ vcam[v] \in cameras /\ frame[vcam[v]] = None
        /\ resp[v] = NoFrameYet
        /\ pc[vcam[v]] = "read"

\* ------------------------------------------------------------------- C4
\* C4: a request for an id that is not in the registry is answered NotFound
\* (404) in the step that receives it; it never waits for or holds a lock,
\* and that step changes no cache, lock, connection or registry state.
C4_UnknownIsDone ==
    \A v \in Viewers :
        (vpc[v] # "idle" /\ vcam[v] \notin cameras)
        => (vpc[v] = "done" /\ resp[v] = NotFound)

C4_UnknownStepTouchesNothing ==
    \A v \in Viewers :
        (vpc[v] = "idle" /\ vpc'[v] # "idle" /\ vcam'[v] \notin cameras)
        => UNCHANGED <<mainVars, camVars, pc, cap, lframe>>

C4_UnknownCameraNotFound ==
    /\ [](C4_UnknownIsDone)
    /\ [][C4_UnknownStepTouchesNothing]_vars

\* A request for cam99 has been answered NotFound while a camera is
\* registered and its updater is in an attempt.
C4_Witness ==
    \E v \in Viewers, c \in CamIds :
        /\ vpc[v] = "done" /\ vcam[v] = UnknownId /\ resp[v] = NotFound
        /\ c \in cameras /\ InAttempt(c)

\* ------------------------------------------------------------------- C5
\* C5: no request thread is inside the critical section of get_jpeg_frame
\* while a thread is inside the frame-assignment critical section of the same
\* camera; whoever is inside holds the lock, at most one writer is inside,
\* and what a reader encodes is a whole frame some read delivered.
C5_ReadWriteExclusion ==
    \A c \in CamIds :
        /\ ~(Readers(c) # {} /\ Writers(c) # {})
        /\ Cardinality(Writers(c)) <= 1
        /\ (Readers(c) # {} \/ Writers(c) # {}) => lock[c]
        /\ \A v \in Readers(c) : vpc[v] = "encode" => frame[c] \in Frames

\* A reader is encoding inside its critical section while the writer of the
\* same camera waits for the lock with a new frame and a second reader waits
\* as well.
C5_Witness ==
    \E c \in CamIds, v, w \in Viewers :
        /\ vpc[v] = "encode" /\ vcam[v] = c
        /\ pc[c] = "lock" /\ lframe[c] # frame[c]
        /\ w # v /\ vpc[w] = "acquire" /\ vcam[w] = c

\* ------------------------------------------------------------------- C6
\* C6: no thread holds a camera's lock while a capture call (open, grab,
\* read, release) or a JPEG encode call is in progress in that thread.
C6_LockNeverHeldAcrossIO ==
    /\ \A v \in Viewers : ~(vpc[v] = "encode" /\ lock[vcam[v]])
    /\ \A c \in CamIds :
          \A t \in Writers(c) : pc[t] \notin {"open", "grab", "read", "release"}

\* ------------------------------------------------------------------- C7
\* C7: at most one _update_frame is in flight per camera: the attempt made
\* in __init__ and the updater thread's attempts never overlap, so a camera
\* never has a second capture connection and never two writers.
C7_OneAttemptPerCamera ==
    \A c \in CamIds :
        /\ Cardinality(Attempting(c)) <= 1
        /\ conns[c] <= 1
        /\ (pc["main"] \in AttemptPcs \cup {"start"} => pc[Cam("main")] = "off")

\* The updater's attempt is in flight, with its one connection open, after
\* the attempt of __init__ has completed and stored a frame.
C7_Witness ==
    \E c \in CamIds :
        /\ pc[c] = "grab" /\ conns[c] = 1 /\ cap[c] = "opened"
        /\ frame[c] # None /\ Attempting(c) = {c}

\* ------------------------------------------------------------------- C8
\* C8: a camera has at most one live capture connection, exactly the one of
\* the attempt in flight; none is live once the attempt has passed its
\* finally block (before the cache write) and none while no attempt is in
\* flight, whichever exit path the attempt took.
C8_NoConnectionLeak ==
    \A c \in CamIds :
        /\ conns[c] = Cardinality({t \in Attempting(c) : cap[t] # "none"})
        /\ conns[c] <= 1
        /\ (Attempting(c) = {} => conns[c] = 0)
        /\ \A t \in Attempting(c) :
              pc[t] \in {"lock", "store", "width"} => cap[t] = "none"
        /\ (pc[c] \in {"sleep", "off"} => cap[c] = "none")

\* The attempt of __init__ has just returned without a frame (a failure
\* path) and the camera holds no connection.
C8_Witness ==
    /\ pc["main"] = "start"
    /\ frame[Cam("main")] = None
    /\ conns[Cam("main")] = 0 /\ cap["main"] = "none"

\* ------------------------------------------------------------------- C9
\* C9: no failure ends an updater thread; a camera without a successful read
\* keeps its cache absent; and after every failed attempt the updater
\* eventually starts another attempt.
C9_UpdaterSurvives ==
    \A c \in CamIds :
        /\ pc[c] \in AttemptPcs \cup {"off", "sleep"}
        /\ (lastGood[c] = None => frame[c] = None)

C9_FailuresAreRetried ==
    /\ [](C9_UpdaterSurvives)
    /\ \A c \in CamIds :
          (pc[c] = "release" /\ lframe[c] = None) ~> (pc[c] = "open")

\* An updater attempt has failed before any read ever succeeded: the cache is
\* absent and the thread is about to return from the attempt.
C9_Witness ==
    \E c \in CamIds :
        /\ pc[c] = "release" /\ lframe[c] = None
        /\ lastGood[c] = None /\ frame[c] = None
        /\ pc["main"] = "serve"

\* ------------------------------------------------------------------ C10
\* C10: with a well-formed configuration, whatever the attempts of one
\* camera return, every camera the start-up loop has passed is registered
\* with a running updater, after start-up all configured cameras are, and no
\* request for a registered camera ends in a server error.
C10_CamerasIndependent ==
    WellFormedConfig =>
        /\ \A i \in 1..Len(config) :
              (i < cur \/ pc["main"] = "serve")
              => /\ config[i].id \in cameras
                 /\ pc[config[i].id] \in AttemptPcs \cup {"sleep"}
        /\ ~loadFailed
        /\ \A v \in Viewers :
              (vpc[v] = "done" /\ vcam[v] \in cameras)
              => resp[v].status \in {200, 404} /\ resp[v] # NotFound

\* cam1 never delivered a frame (its attempt in __init__ failed and its
\* updater is failing again), cam2 is registered and a request for it has
\* been answered with a JPEG.
C10_Witness ==
    \E v \in Viewers :
        /\ pc["main"] = "serve" /\ cameras = {"cam1", "cam2"}
        /\ lastGood["cam1"] = None
        /\ pc["cam1"] = "release" /\ lframe["cam1"] = None
        /\ vpc[v] = "done" /\ vcam[v] = "cam2" /\ resp[v].status = 200

\* ------------------------------------------------------------------ C11
\* Positions inside a call on the capture connection that can block.
NetPcs == {"open", "grab", "read"}
\* Ids of the config entries a Camera is constructed for.
ConfiguredIds == {config[i].id : i \in {j \in 1..Len(config) : config[j].hasUrl}}

\* C11: while a thread is blocked in a capture call of camera A (the attempt
\* of __init__ included), every other camera's reader is started or can be
\* started (the thread that starts it is not the blocked one), and the HTTP
\* layer serves or can begin to serve requests.
C11_ReaderBlocksNobody ==
    \A t \in Threads :
        pc[t] \in NetPcs =>
            /\ \A b \in ConfiguredIds \ {Cam(t)} :
                  pc[b] = "off" => pc["main"] \notin NetPcs
            /\ (pc["main"] # "serve" => pc["main"] \notin NetPcs)

\* ------------------------------------------------------------------ C14
\* C14: once start-up has ended on a malformed or missing configuration
\* (unreadable file, or an entry lacking id or rtsp_url at any position),
\* the camera registry is empty and the process goes on to serve.
C14_BadConfigEmptiesRegistry ==
    (pc["main"] = "serve" /\ loadFailed) => cameras = {}

\* ------------------------------------------------------------------ C16
\* C16: a viewer of the continuous mode receives an unbroken sequence of
\* parts: the server never ends a response that has delivered a JPEG part
\* (only the viewer closes it), so two viewers of one camera can both stay
\* connected.
C16_StreamUnbroken ==
    [][\A v \in Viewers :
          ~(vpc[v] = "done" /\ resp[v].status = 200 /\ vpc'[v] = "idle")]_vars

\* ------------------------------------------------------------------ C17
\* C17 as stated: a connection that reported opened is always followed by
\* exactly FRAMES_TO_SKIP grabs and then the read.
C17_AlwaysSkipsThenReads ==
    [][\A t \in Threads :
          (pc[t] = "grab" /\ pc'[t] # "grab")
              => (pc'[t] = "read" /\ grabs'[t] = FRAMES_TO_SKIP)]_vars

\* Positions of _update_frame after _get_latest_frame_from_rtsp has returned
\* a frame: the cache write.
WritePcs == {"lock", "store", "width"}

C17_Positions ==
    \A t \in Threads :
        /\ (pc[t] = "open" => cap[t] = "none")
        /\ (pc[t] = "grab" => cap[t] = "opened" /\ grabs[t] = 0)
        /\ (pc[t] = "read" => cap[t] = "opened" /\ grabs[t] = FRAMES_TO_SKIP)
        /\ (pc[t] \in WritePcs => cap[t] = "none" /\ lframe[t] # None)

C17_Steps ==
    \A t \in Threads :
        /\ (pc[t] = "open" /\ pc'[t] # "open" /\ cap'[t] # "opened")
              => pc'[t] = "release"
        /\ (pc[t] \in NetPcs /\ pc'[t] \notin NetPcs) => pc'[t] = "release"
        /\ (pc[t] = "release" /\ pc'[t] # "release")
              => /\ cap'[t] = "none"
                 /\ pc'[t] = (IF lframe[t] # None THEN "lock" ELSE AfterAttempt(t))
        /\ (InAttempt(t) /\ frame'[Cam(t)] # frame[Cam(t)])
              => (pc[t] = "store" /\ frame'[Cam(t)] = lframe[t])

\* C17 (amended): every attempt starts without a capture (a fresh connection);
\* grabs happen only on a capture that reported opened and the read only after
\* exactly FRAMES_TO_SKIP grabs returned; a connection that did not open, or a
\* capture call that raised, leads straight to the release with no further
\* grab or read; the cache is written only after the release, only with the
\* frame this attempt read.
C17_AttemptProtocol == []C17_Positions /\ [][C17_Steps]_vars

\* A later attempt of an updater, about to read after its ten grabs, while the
\* cache holds the frame of an earlier attempt.
C17_Witness ==
    \E c \in CamIds :
        /\ pc[c] = "read" /\ grabs[c] = FRAMES_TO_SKIP /\ cap[c] = "opened"
        /\ frame[c] # None

\* ------------------------------------------------------------------ C12
\* A step of a request thread (any step of video_feed / get_jpeg_frame)
\* leaves frame, frame_width and frame_height of every camera as they were.
C12_RequestKeepsCache ==
    (vpc' # vpc) => UNCHANGED <<frame, frame_width, frame_height>>

\* The step that ends get_jpeg_frame decides the response of its own request
\* from the cache alone: NoFrameYet for an empty cache, the JPEG of the cached
\* frame when it encodes, a failed response (no 200, no payload) when it does
\* not; the position and response of every other request stay as they were.
C12_OutcomeIsOwn ==
    \A v \in Viewers :
        (vpc[v] \in {"check", "encode"} /\ vpc'[v] = "done")
        => /\ resp'[v] =
                 (IF frame[vcam[v]] = None THEN NoFrameYet
                  ELSE IF encoding[frame[vcam[v]]] = "ok"
                          THEN JpegResponse(JpegOf(frame[vcam[v]]))
                  ELSE IF encoding[frame[vcam[v]]] = "fail" THEN NoFrameYet
                  ELSE ServerError)
           /\ (resp'[v].status = 200
                  <=> (frame[vcam[v]] # None /\ encoding[frame[vcam[v]]] = "ok"))
           /\ (resp'[v].status # 200 => resp'[v].jpeg = <<>>)
           /\ \A u \in Viewers \ {v} : resp'[u] = resp[u] /\ vpc'[u] = vpc[u]

\* C12: a snapshot request never modifies the cache, whatever its outcome,
\* and an encode failure is a failed response of that one request only.
C12_SnapshotReadOnly == [][C12_RequestKeepsCache /\ C12_OutcomeIsOwn]_vars

\* One request holds the 200 it got for the first frame while a second
\* request for the same camera has failed on the unencodable frame that
\* replaced it, and the cache still holds that frame.
C12_Witness ==
    \E v, u \in Viewers :
        /\ v # u /\ vcam[v] = vcam[u] /\ vcam[v] \in cameras
        /\ vpc[u] = "done" /\ resp[u].status = 200
        /\ vpc[v] = "done" /\ resp[v].status # 200
        /\ frame[vcam[v]] # None /\ encoding[frame[vcam[v]]] # "ok"

\* ------------------------------------------------------------------ C19
\* A camera's lock is held exactly while one thread is inside a critical
\* section of that camera, so every path out of a critical section has
\* released it.
C19_HeldOnlyInside ==
    \A c \in CamIds :
        Cardinality(Readers(c)) + Cardinality(Writers(c))
            = (IF lock[c] THEN 1 ELSE 0)

\* A step takes or releases at most one camera's lock.
C19_OneLockPerStep ==
    \A c, d \in CamIds : (lock'[c] # lock[c] /\ lock'[d] # lock[d]) => c = d

\* Every request that entered get_jpeg_frame returns.
C19_RequestReturns ==
    \A v \in Viewers : (vpc[v] = "acquire") ~> (vpc[v] = "done")

\* Every attempt that read a frame completes its cache write.
C19_WriteCompletes ==
    \A t \in Threads : (pc[t] = "lock") ~> (pc[t] = AfterAttempt(t))

\* C19: the cache lock cannot deadlock or be held forever: it is released on
\* every path, no thread holds two, and under fair scheduling every request
\* in get_jpeg_frame returns and every successful attempt completes its write.
C19_LockSafety == []C19_HeldOnlyInside /\ [][C19_OneLockPerStep]_vars

C13_PollsBounded == \A v \in Viewers : polls[v] \in 0..DIM_POLLS

\* get_frame_dimensions can always take its next step, whoever holds the
\* lock of the camera.
C13_NeverBlocked ==
    \A v \in Viewers :
        vpc[v] \in {"poll", "dwidth", "dheight"} => ENABLED GetFrameDimensions(v)

\* A pass through the loop sleeps only while the width is 0 and fewer than
\* DIM_POLLS sleeps were made; with a latched width, or after DIM_POLLS
\* sleeps, it leaves the loop without sleeping; no step of the request
\* touches a lock.
C13_LoopSteps ==
    \A v \in Viewers :
        (vpc[v] = "poll" /\ <<vpc[v], polls[v]>>' # <<vpc[v], polls[v]>>)
        => /\ IF frame_width[vcam[v]] = 0 /\ polls[v] < DIM_POLLS
                 THEN vpc'[v] = "poll" /\ polls'[v] = polls[v] + 1
                 ELSE vpc'[v] = "dwidth" /\ polls'[v] = polls[v]
           /\ UNCHANGED lock

\* C13: get_frame_dimensions always terminates: it sleeps at most 50 times
\* and then returns, returns without sleeping when the width is latched, and
\* never waits for the lock.
C13_DimensionsTerminate ==
    /\ []C13_PollsBounded
    /\ []C13_NeverBlocked
    /\ [][C13_LoopSteps]_vars
    /\ (vpc[Poller] = "poll") ~> (vpc[Poller] = "pdone")

\* The loop is exhausted (50 sleeps, width still 0) while the writer holds the
\* lock of that camera.
C13_Witness ==
    /\ vpc[Poller] = "poll" /\ polls[Poller] = DIM_POLLS
    /\ frame_width[vcam[Poller]] = 0
    /\ lock[vcam[Poller]]

\* ------------------------------------------------------------------ C18
\* C18: the pair get_frame_dimensions returns for a registered camera is
\* (0, 0) or the latched (width, height) of the first successful frame.
C18_ConsistentPair ==
    \A v \in Viewers :
        (vpc[v] = "pdone" /\ presp[v].kind = "get" /\ ~presp[v].error
            /\ vcam[v] \in cameras)
        => \/ presp[v].size = <<0, 0>>
           \/ /\ firstOk[vcam[v]] # None
              /\ presp[v].size = <<Shape(firstOk[vcam[v]])[2],
                                   Shape(firstOk[vcam[v]])[1]>>

\* ------------------------------------------------------------------ C15
\* A GET that no POST for its id overlapped answers with the array of the
\* latest successful POST for that id, and with [] before any POST.
C15_GetReturnsLatestPost ==
    \A v \in Viewers :
        (vpc[v] = "pdone" /\ presp[v].kind = "get" /\ clean[v]
            /\ settled[vcam[v]] # Unsettled)
        => presp[v].polygons =
              (IF settled[vcam[v]] = NoPost THEN <<>> ELSE settled[vcam[v]])

\* A step of a POST changes the file of no other id.
C15_OtherIdsUntouched ==
    \A i \in PolyIds :
        files'[i] # files[i]
        => \E v \in Viewers : vpc[v] \in PostPcs /\ vcam[v] = i /\ vpc'[v] # vpc[v]

\* C15: polygons round-trip per camera id.
C15_PolygonsRoundTrip ==
    []C15_GetReturnsLatestPost /\ [][C15_OtherIdsUntouched]_vars

====
